---- MODULE Spec2Model ----
(***************************************************************************)
(* Detection post-processing of EfficientDetModel                          *)
(* (05-effdet/src/effdet_model_1.py): the detection decoder                *)
(* (_postprocess_single_prediction_detections), the box ensembler          *)
(* (run_wbf around ensemble_boxes' weighted_boxes_fusion), the coordinate  *)
(* rescaler (__rescale_bboxes), the two predict entry points and the       *)
(* validation-epoch aggregation.                                           *)
(*                                                                         *)
(* Real numbers are exact rationals <<n, d>> with d > 0 in lowest terms,   *)
(* so that equality of two computed coordinates is equality of values.     *)
(***************************************************************************)
EXTENDS Integers, Sequences, FiniteSets, TLC

\* ------------------------------------------------------------- bounds
\* most detection rows the network returns per image
MaxDet == 2
\* most images in one batch
MaxImages == 2
\* most validation steps in one epoch
MaxSteps == 2

\* ------------------------------------------------------- exact numbers
Abs(n) == IF n < 0 THEN -n ELSE n

RECURSIVE Gcd(_, _)
Gcd(a, b) == IF b = 0 THEN a ELSE Gcd(b, a % b)

\* n/d in lowest terms with a positive denominator
Rat(n, d) ==
    LET s == IF d < 0 THEN -1 ELSE 1
        g == Gcd(Abs(n), Abs(d))
    IN  <<(s * n) \div g, (s * d) \div g>>

R(n) == <<n, 1>>
RAdd(a, b) == Rat(a[1] * b[2] + b[1] * a[2], a[2] * b[2])
RSub(a, b) == Rat(a[1] * b[2] - b[1] * a[2], a[2] * b[2])
RMul(a, b) == Rat(a[1] * b[1], a[2] * b[2])
RDiv(a, b) == Rat(a[1] * b[2], a[2] * b[1])
RLt(a, b) == a[1] * b[2] < b[1] * a[2]
RLe(a, b) == a[1] * b[2] <= b[1] * a[2]
RMax(a, b) == IF RLt(a, b) THEN b ELSE a
RMin(a, b) == IF RLt(b, a) THEN b ELSE a
\* int(x) of a non-negative number
RInt(a) == a[1] \div a[2]

\* ------------------------------------------------------ sequence helpers
Range(s) == {s[i] : i \in 1..Len(s)}
Reverse(s) == [i \in 1..Len(s) |-> s[Len(s) + 1 - i]] \o <<>>

RECURSIVE Flatten(_)
Flatten(ss) == IF ss = <<>> THEN <<>> ELSE Head(ss) \o Flatten(Tail(ss))

RECURSIVE SeqsOfLen(_, _)
\* all sequences over S of length n
SeqsOfLen(S, n) ==
    IF n = 0 THEN {<<>>}
    ELSE {Append(s, x) : s \in SeqsOfLen(S, n - 1), x \in S}

\* a list or an array built elementwise: every element is computed once
AsList(f) == f \o <<>>

\* a[indexes]: numpy indexing of a by an array of (1-based) positions
Take(a, indexes) == AsList([k \in 1..Len(indexes) |-> a[indexes[k]]])

\* an exception leaving a function: no value is returned with it
Raise(e) == [raised |-> e]
Raised(x) == "raised" \in DOMAIN x

\* --------------------------------------------------- detection decoder
\* One image's raw detections: an N x cols array, rows of
\* (x1, y1, x2, y2, score, class, ...).  [cols |-> c, rows |-> <<row, ...>>]

\* a column read with zeros for a column the array does not have
ColumnOrZero(det, k) ==
    IF k >= det.cols THEN [val |-> AsList([i \in 1..Len(det.rows) |-> R(0)])]
    ELSE [val |-> AsList([i \in 1..Len(det.rows) |-> det.rows[i][k + 1]])]

\* detections[:, k] for a 0-based column k: IndexError when k is out of bounds
Column(det, k) ==
    IF k >= det.cols THEN Raise("IndexError")
    ELSE [val |-> AsList([i \in 1..Len(det.rows) |-> det.rows[i][k + 1]])]

\* detections[:, :4]: a slice never raises, it is cut at the array's width
BoxColumns(det) ==
    AsList([i \in 1..Len(det.rows) |->
        AsList([k \in 1..(IF det.cols < 4 THEN det.cols ELSE 4) |-> det.rows[i][k]])])

\* np.where(scores >= threshold)[0]
WhereGeq(scores, threshold) ==
    SelectSeq(AsList([i \in 1..Len(scores) |-> i]), LAMBDA i : RLe(threshold, scores[i]))

\* np.where(scores > threshold)[0]: the positions whose score exceeds the
\* threshold, ascending
Where(scores, threshold) ==
    SelectSeq(AsList([i \in 1..Len(scores) |-> i]), LAMBDA i : RLt(threshold, scores[i]))

\* EfficientDetModel._postprocess_single_prediction_detections
PostprocessSingle(det, threshold) ==
    LET boxes == BoxColumns(det)
        scores == Column(det, 4)
        classes == Column(det, 5)
    IN  IF Raised(scores) THEN scores
        ELSE IF Raised(classes) THEN classes
        ELSE LET indexes == Where(scores.val, threshold)
             IN  [boxes   |-> Take(boxes, indexes),
                  scores  |-> Take(scores.val, indexes),
                  classes |-> Take(classes.val, indexes)]

\* ---------------------------------------------- weighted boxes fusion
\* ensemble_boxes.ensemble_boxes_wbf, as run_wbf calls it: one set of boxes
\* per image, weights=None (one weight of 1), conf_type='avg'.
\* A candidate is [label, score, box], box = <<x1, y1, x2, y2>> in [0, 1].

Clip01(x) == IF RLt(x, R(0)) THEN R(0) ELSE IF RLt(R(1), x) THEN R(1) ELSE x

\* prefilter_boxes' box data checks: reversed corners are swapped, then
\* every coordinate is clipped to [0, 1]
CheckedBox(b) ==
    <<Clip01(RMin(b[1], b[3])), Clip01(RMin(b[2], b[4])),
      Clip01(RMax(b[1], b[3])), Clip01(RMax(b[2], b[4]))>>

Area(b) == RMul(RSub(b[3], b[1]), RSub(b[4], b[2]))

\* current_boxes[:, 1].argsort()[::-1]: ascending by score, ties in their
\* order, the whole reversed
RECURSIVE InsertAsc(_, _)
InsertAsc(sorted, x) ==
    IF sorted = <<>> THEN <<x>>
    ELSE IF RLt(x.score, Head(sorted).score) THEN <<x>> \o sorted
    ELSE <<Head(sorted)>> \o InsertAsc(Tail(sorted), x)

RECURSIVE SortAsc(_)
SortAsc(s) ==
    IF s = <<>> THEN <<>>
    ELSE InsertAsc(SortAsc(SubSeq(s, 1, Len(s) - 1)), s[Len(s)])

ArgsortDesc(s) == Reverse(SortAsc(s))

RECURSIVE LabelsInOrder(_, _)
\* the keys of prefilter_boxes' dict, in insertion order
LabelsInOrder(cands, seen) ==
    IF cands = <<>> THEN <<>>
    ELSE IF Head(cands).label \in seen THEN LabelsInOrder(Tail(cands), seen)
    ELSE <<Head(cands).label>>
             \o LabelsInOrder(Tail(cands), seen \cup {Head(cands).label})

\* prefilter_boxes: the candidates of one label, best score first; a box
\* scoring under thr or of zero area is skipped
Prefiltered(boxes, scores, labels, thr) ==
    LET all == AsList([j \in 1..Len(boxes) |->
                   [label |-> RInt(labels[j]), score |-> scores[j],
                    box |-> CheckedBox(boxes[j])]])
    IN  SelectSeq(all, LAMBDA c : ~RLt(c.score, thr) /\ Area(c.box) # R(0))

RECURSIVE RSumSeq(_)
RSumSeq(s) == IF s = <<>> THEN R(0) ELSE RAdd(Head(s), RSumSeq(Tail(s)))

\* get_weighted_box: the confidence-weighted mean of a cluster's corners,
\* scored by the mean confidence
WeightedBy(cluster, conf) ==
    [label |-> cluster[1].label,
     score |-> RDiv(conf, R(Len(cluster))),
     box   |-> AsList([k \in 1..4 |->
                  RDiv(RSumSeq(AsList([i \in 1..Len(cluster) |->
                                  RMul(cluster[i].score, cluster[i].box[k])])),
                       conf)])]

GetWeightedBox(cluster) ==
    WeightedBy(cluster, RSumSeq(AsList([i \in 1..Len(cluster) |-> cluster[i].score])))

\* bb_iou_array for one pair of boxes
InterArea(a, b) ==
    RMul(RMax(RSub(RMin(a[3], b[3]), RMax(a[1], b[1])), R(0)),
         RMax(RSub(RMin(a[4], b[4]), RMax(a[2], b[2])), R(0)))

IouFrom(inter, areaA, areaB) == RDiv(inter, RSub(RAdd(areaA, areaB), inter))

BbIou(a, b) == IouFrom(InterArea(a, b), Area(a), Area(b))

RECURSIVE ArgMax(_, _, _)
\* np.argmax: the first position of the largest value
ArgMax(v, i, best) ==
    IF i > Len(v) THEN best
    ELSE ArgMax(v, i + 1, IF RLt(v[best], v[i]) THEN i ELSE best)

\* best_idx, or 0 (the library's -1) when best_iou <= match_iou
BestIndex(ious, best, match_iou) ==
    IF RLe(ious[best], match_iou) THEN 0 ELSE best

BestOf(ious, match_iou) == BestIndex(ious, ArgMax(ious, 1, 1), match_iou)

\* find_matching_box_fast: the fused box of new_box's label overlapping it
\* most, 0 when no overlap exceeds match_iou
FindMatchingBox(weighted, new_box, match_iou) ==
    IF weighted = <<>> THEN 0
    ELSE BestOf(AsList([i \in 1..Len(weighted) |->
                    IF weighted[i].label # new_box.label THEN R(-1)
                    ELSE BbIou(weighted[i].box, new_box.box)]),
                match_iou)

\* one candidate placed: into the cluster it matches, whose fused box is
\* recomputed, or into a new cluster of its own
Placed(st, b, index) ==
    IF index # 0
    THEN [new_boxes |-> [st.new_boxes EXCEPT ![index] = Append(@, b)],
          weighted  |-> [st.weighted EXCEPT
                            ![index] = GetWeightedBox(Append(st.new_boxes[index], b))]]
    ELSE [new_boxes |-> Append(st.new_boxes, <<b>>),
          weighted  |-> Append(st.weighted, b)]

RECURSIVE Cluster(_, _, _)
\* the loop over one label's candidates, best score first
Cluster(cands, st, iou_thr) ==
    IF cands = <<>> THEN st.weighted
    ELSE Cluster(Tail(cands),
                 Placed(st, Head(cands),
                        FindMatchingBox(st.weighted, Head(cands), iou_thr)),
                 iou_thr)

\* overall_boxes as the three arrays returned: boxes, scores, labels
Unpacked(overall) ==
    <<AsList([i \in 1..Len(overall) |-> overall[i].box]),
      AsList([i \in 1..Len(overall) |-> overall[i].score]),
      AsList([i \in 1..Len(overall) |-> R(overall[i].label)])>>

FusedByLabel(filtered, keys, iou_thr) ==
    AsList([k \in 1..Len(keys) |->
        Cluster(ArgsortDesc(SelectSeq(filtered, LAMBDA c : c.label = keys[k])),
                [new_boxes |-> <<>>, weighted |-> <<>>], iou_thr)])

Fused(filtered, iou_thr) ==
    Unpacked(ArgsortDesc(Flatten(
        FusedByLabel(filtered, LabelsInOrder(filtered, {}), iou_thr))))

\* weighted_boxes_fusion for one set of boxes: (boxes, scores, labels)
WeightedBoxesFusion(boxes, scores, labels, iou_thr, skip_box_thr) ==
    Fused(Prefiltered(boxes, scores, labels, skip_box_thr), iou_thr)

\* ------------------------------------------------------- box ensembler
\* run_wbf's default skip_box_thr, which post_process_detections leaves as is
SkipBoxThr == Rat(43, 100)

ScaleBoxes(boxes, f) ==
    AsList([i \in 1..Len(boxes) |-> AsList([k \in 1..Len(boxes[i]) |-> RMul(boxes[i][k], f)])])

\* boxes / image_size
Normalised(boxes, image_size) == ScaleBoxes(boxes, Rat(1, image_size))

\* boxes * (image_size - 1)
Denormalised(fused, image_size) ==
    <<ScaleBoxes(fused[1], R(image_size - 1)), fused[2], fused[3]>>

\* one turn of run_wbf's loop: normalise, fuse, denormalise
RunWbfOne(prediction, image_size, iou_thr, skip_box_thr) ==
    Denormalised(
        WeightedBoxesFusion(Normalised(prediction.boxes, image_size),
                            prediction.scores, prediction.classes,
                            iou_thr, skip_box_thr),
        image_size)

\* the three lists run_wbf appends to, from its turns
Appended(each) ==
    <<AsList([i \in 1..Len(each) |-> each[i][1]]),
      AsList([i \in 1..Len(each) |-> each[i][2]]),
      AsList([i \in 1..Len(each) |-> each[i][3]])>>

\* run_wbf: (bboxes, confidences, class_labels), one entry per prediction
RunWbf(predictions, image_size, iou_thr, skip_box_thr) ==
    Appended(AsList([i \in 1..Len(predictions) |->
                 RunWbfOne(predictions[i], image_size, iou_thr, skip_box_thr)]))

\* ------------------------------------------------------------ the module
VARIABLES
    img_size,                         \* self.img_size
    prediction_confidence_threshold,  \* self.prediction_confidence_threshold
    wbf_iou_threshold,                \* self.wbf_iou_threshold
    call,       \* the call in progress or returned: arguments, locals, result
    first,      \* the first predict call of this module, as it returned
    outputs     \* what the validation steps of the running epoch returned

vars == <<img_size, prediction_confidence_threshold, wbf_iou_threshold,
          call, first, outputs>>

fields == <<img_size, prediction_confidence_threshold, wbf_iou_threshold>>

\* A batch of raw detections, the network's "detections" output: shape
\* (B, N, cols).  [cols |-> c, data |-> <<rows of image 1, ...>>]
ImageDetections(detections, i) == [cols |-> detections.cols, rows |-> detections.data[i]]

RECURSIVE FirstRaised(_, _)
\* what the loop over the images ends with: the first exception, or all
\* the predictions
FirstRaised(predictions, i) ==
    IF i > Len(predictions) THEN [val |-> predictions]
    ELSE IF Raised(predictions[i]) THEN predictions[i]
    ELSE FirstRaised(predictions, i + 1)

\* post_process_detections' loop: the decoder on every image of the batch
DecodeAll(detections) ==
    FirstRaised(AsList([i \in 1..Len(detections.data) |->
                    PostprocessSingle(ImageDetections(detections, i),
                                      prediction_confidence_threshold)]), 1)

\* post_process_detections' call of run_wbf on the predictions
Ensembled(predictions) ==
    IF Raised(predictions) THEN predictions
    ELSE [predictions |-> predictions.val,
          val |-> RunWbf(predictions.val, img_size, wbf_iou_threshold, SkipBoxThr)]

\* EfficientDetModel.post_process_detections: val is
\* (predicted_bboxes, predicted_class_confidences, predicted_class_labels)
PostProcessDetections(detections) == Ensembled(DecodeAll(detections))

Min2(a, b) == IF a < b THEN a ELSE b

\* the four factors with height and width taken for each other
ScaleFactorsSwapped(img_dims, size) ==
    <<Rat(img_dims[1], size), Rat(img_dims[2], size),
      Rat(img_dims[1], size), Rat(img_dims[2], size)>>

\* the four factors a box is multiplied by: im_h, im_w = img_dims, and
\* (im_w, im_h, im_w, im_h) / self.img_size
ScaleFactors(img_dims, size) ==
    <<Rat(img_dims[2], size), Rat(img_dims[1], size),
      Rat(img_dims[2], size), Rat(img_dims[1], size)>>

RescaleOne(bboxes, factor) ==
    IF Len(bboxes) > 0
    THEN AsList([b \in 1..Len(bboxes) |-> AsList([k \in 1..4 |-> RMul(bboxes[b][k], factor[k])])])
    ELSE bboxes

\* the rescaler appending nothing for an image without boxes
RescaleBboxesNonEmpty(predicted_bboxes, image_sizes) ==
    SelectSeq(AsList([i \in 1..Min2(Len(predicted_bboxes), Len(image_sizes)) |->
                  RescaleOne(predicted_bboxes[i],
                             ScaleFactors(image_sizes[i], img_size))]),
              LAMBDA bboxes : Len(bboxes) > 0)

\* the rescaler reading the first image's size for every image
RescaleBboxesFirstSize(predicted_bboxes, image_sizes) ==
    AsList([i \in 1..Min2(Len(predicted_bboxes), Len(image_sizes)) |->
        RescaleOne(predicted_bboxes[i], ScaleFactors(image_sizes[1], img_size))])

\* EfficientDetModel.__rescale_bboxes: zip(predicted_bboxes, image_sizes)
RescaleBboxes(predicted_bboxes, image_sizes) ==
    AsList([i \in 1..Min2(Len(predicted_bboxes), Len(image_sizes)) |->
        RescaleOne(predicted_bboxes[i], ScaleFactors(image_sizes[i], img_size))])

\* the three lists returned in post_process_detections' order
ReturnedUnswapped(bboxes, class_confidences, class_labels, image_sizes) ==
    <<RescaleBboxes(bboxes, image_sizes), class_confidences, class_labels>>

\* what _run_inference returns, from post_process_detections' three lists
Returned(bboxes, class_confidences, class_labels, image_sizes) ==
    <<RescaleBboxes(bboxes, image_sizes), class_labels, class_confidences>>

InferenceFrom(post, image_sizes) ==
    IF Raised(post) THEN [ret |-> post]
    ELSE [predictions |-> post.predictions,
          post |-> post.val,
          ret |-> [val |-> Returned(post.val[1], post.val[2], post.val[3],
                                    image_sizes)]]

\* EfficientDetModel._run_inference after the network returned detections:
\* ret is (scaled_bboxes, predicted_class_labels, predicted_class_confidences),
\* predictions and post are its locals
RunInference(detections, image_sizes) ==
    InferenceFrom(PostProcessDetections(detections), image_sizes)

\* ------------------------------------------------------------- inputs
\* detection rows (x1, y1, x2, y2, score, class, one more column)
RowA == <<R(0), R(0), R(2), R(2), Rat(9, 10), R(1), R(0)>>
\* another class; its score is one of the thresholds
RowB == <<R(1), R(1), R(3), R(3), Rat(1, 2), R(2), R(0)>>
\* overlaps RowA (IoU 2/3), same class
RowC == <<R(0), R(0), R(2), R(3), Rat(17, 20), R(1), R(0)>>
\* a weak detection, its score the other threshold
RowD == <<R(2), R(2), R(4), R(4), Rat(1, 5), R(1), R(0)>>

Rows == {RowA, RowB, RowC, RowD}
PipelineRows == {RowA, RowB}

Thresholds == {Rat(1, 5), Rat(1, 2)}
ImgSizes == {4, 8}
\* wbf_iou_threshold's default, 0.44
IouThresholds == {Rat(11, 25)}

\* widths of a raw detection array, well formed (6 and more) and not
DetectionCols == {3, 5, 6, 7}

\* the first cols columns of a row
FirstColumns(row, cols) == AsList([k \in 1..cols |-> row[k]])

\* the (B, N, cols) detections a network can return for B images
Detections(rowset, B, cols) ==
    {[cols |-> cols, data |-> d] :
        d \in UNION {SeqsOfLen(SeqsOfLen({FirstColumns(r, cols) : r \in rowset}, N), B) :
                        N \in 0..MaxDet}}

\* PIL images, by their size (width, height)
Images == {[size |-> <<6, 12>>], [size |-> <<12, 6>>]}
ImageLists == UNION {SeqsOfLen(Images, B) : B \in 0..MaxImages}

\* shapes of image tensors: (3, H, W) and (B, 3, H, W)
TensorShapes ==
    {<<3, h, w>> : h \in ImgSizes, w \in ImgSizes}
    \cup {<<B, 3, h, w>> : B \in 0..MaxImages, h \in ImgSizes, w \in ImgSizes}

NoCall == [op |-> "none"]

Init ==
    /\ img_size \in ImgSizes
    /\ prediction_confidence_threshold \in Thresholds
    /\ wbf_iou_threshold \in IouThresholds
    /\ call = NoCall
    /\ first = NoCall
    /\ outputs = <<>>

\* ------------------------------------------------------------ predict
\* an inference that leaves the confidence threshold raised
RunInferenceRaisesThreshold ==
    /\ prediction_confidence_threshold' = Rat(1, 2)
    /\ UNCHANGED <<img_size, wbf_iou_threshold>>

\* _run_inference reads the module's fields and assigns none
RunInferenceFields == UNCHANGED fields

\* predict(images: List) with the network returning detections
PredictListCall(images, detections) ==
    LET image_sizes == AsList([i \in 1..Len(images) |->
                           <<images[i].size[2], images[i].size[1]>>])
    IN  IF images = <<>>
        THEN \* torch.stack of an empty list
             /\ call' = [op |-> "predict_list", images |-> images,
                         model_called |-> FALSE,
                         run |-> [ret |-> Raise("RuntimeError")]]
             /\ UNCHANGED fields
        ELSE /\ Len(detections.data) = Len(images)
             /\ call' = [op |-> "predict_list", images |-> images,
                         image_sizes |-> image_sizes,
                         model_called |-> TRUE, detections |-> detections,
                         run |-> RunInference(detections, image_sizes)]
             /\ RunInferenceFields

\* images_tensor.unsqueeze(0) when images_tensor.ndim == 3
Promoted(shape) == IF Len(shape) = 3 THEN <<1>> \o shape ELSE shape

\* the shape check raising only when both dimensions are off
ShapeMismatchBoth(shape) ==
    shape[Len(shape)] # img_size /\ shape[Len(shape) - 1] # img_size

\* the shape check of predict(images_tensor)
ShapeMismatch(shape) ==
    shape[Len(shape)] # img_size \/ shape[Len(shape) - 1] # img_size

\* predict(images_tensor: torch.Tensor) with the network returning detections
PredictTensorCall(shape, detections) ==
    LET images_tensor == Promoted(shape)
        num_images == images_tensor[1]
        image_sizes == AsList([i \in 1..num_images |-> <<img_size, img_size>>])
    IN  IF ShapeMismatch(images_tensor)
        THEN /\ call' = [op |-> "predict_tensor", shape |-> shape,
                         model_called |-> FALSE,
                         run |-> [ret |-> Raise("ValueError")]]
             /\ UNCHANGED fields
        ELSE /\ Len(detections.data) = num_images
             /\ call' = [op |-> "predict_tensor", shape |-> shape,
                         image_sizes |-> image_sizes,
                         model_called |-> TRUE, detections |-> detections,
                         run |-> RunInference(detections, image_sizes)]
             /\ RunInferenceFields

\* what the network can return for B images; it is not called, and returns
\* nothing, when the arguments are refused first
ModelOutputs(rowset, B, refused) ==
    IF refused THEN {[cols |-> 6, data |-> <<>>]} ELSE Detections(rowset, B, 6)

PredictList ==
    /\ call = NoCall
    /\ \E images \in ImageLists :
          \E detections \in ModelOutputs(PipelineRows, Len(images), images = <<>>) :
             PredictListCall(images, detections)
    /\ UNCHANGED <<first, outputs>>

PredictTensor ==
    /\ call = NoCall
    /\ \E shape \in TensorShapes :
          \E detections \in ModelOutputs(PipelineRows, Promoted(shape)[1],
                                         ShapeMismatch(Promoted(shape))) :
             PredictTensorCall(shape, detections)
    /\ UNCHANGED <<first, outputs>>

Next == PredictList \/ PredictTensor

\* one predict call on a module as constructed
Spec == Init /\ [][Next]_vars

\* ------------------------------------------------ the decoder by itself
\* _postprocess_single_prediction_detections on one image's raw detections
PostprocessSingleCall ==
    /\ call = NoCall
    /\ \E cols \in DetectionCols, N \in 0..MaxDet :
          \E rows \in SeqsOfLen({FirstColumns(r, cols) : r \in Rows}, N) :
             call' = [op |-> "postprocess_single",
                      detections |-> [cols |-> cols, rows |-> rows],
                      ret |-> PostprocessSingle([cols |-> cols, rows |-> rows],
                                                prediction_confidence_threshold)]
    /\ UNCHANGED <<fields, first, outputs>>

SpecDecode == Init /\ [][PostprocessSingleCall]_vars

\* --------------------------------------------------- predict, repeatedly
\* what the first predict call was given and what it returned, with the
\* fields it found; between: a call with other arguments came after it
Args(c) == [k \in DOMAIN c \ {"run", "image_sizes", "model_called"} |-> c[k]]

Remembered(c, f) ==
    IF first = NoCall
    THEN [args |-> Args(c), ret |-> c.run.ret, fields |-> f, between |-> FALSE]
    ELSE [first EXCEPT !.between = @ \/ Args(c) # first.args]

RepeatImages == {<<[size |-> <<6, 12>>]>>}
RepeatShapes == {<<1, 3, h, h>> : h \in ImgSizes}

PredictListAgain ==
    /\ \E images \in RepeatImages :
          \E detections \in ModelOutputs({RowA}, Len(images), FALSE) :
             PredictListCall(images, detections)
    /\ first' = Remembered(call', fields)
    /\ UNCHANGED outputs

PredictTensorAgain ==
    /\ \E shape \in RepeatShapes :
          \E detections \in ModelOutputs(PipelineRows, Promoted(shape)[1],
                                         ShapeMismatch(Promoted(shape))) :
             PredictTensorCall(shape, detections)
    /\ first' = Remembered(call', fields)
    /\ UNCHANGED outputs

NextCalls == PredictListAgain \/ PredictTensorAgain

\* any number of predict calls, one after the other, on the same module
SpecCalls == Init /\ [][NextCalls]_vars

\* ------------------------------------------------------- validation
\* the validation set: image ids, and the rows the network returns for
\* each image
ImageIds == {1, 2}
ValDetections == [id \in ImageIds |->
    IF id = 1 THEN <<FirstColumns(RowA, 6), FirstColumns(RowB, 6)>>
    ELSE <<FirstColumns(RowC, 6), FirstColumns(RowD, 6)>>]
ValTarget(id) == [image_id |-> id]

\* validation_step on the batch of the images ids, collated as
\* (images, annotations, targets, image_ids): its return value, without
\* the loss
ValidationStepOutput(ids) ==
    LET targets == AsList([i \in 1..Len(ids) |-> ValTarget(ids[i])])
        image_ids == ids
        detections == [cols |-> 6,
                       data |-> AsList([i \in 1..Len(ids) |-> ValDetections[ids[i]]])]
    IN  [batch_predictions |-> [predictions |-> detections,
                                targets |-> targets,
                                image_ids |-> image_ids]]

\* the trainer runs validation_step on a batch and keeps what it returns
ValidationStep ==
    /\ call = NoCall
    /\ Len(outputs) < MaxSteps
    /\ \E B \in 0..MaxImages : \E ids \in SeqsOfLen(ImageIds, B) :
          outputs' = Append(outputs, ValidationStepOutput(ids))
    /\ UNCHANGED <<fields, call, first>>

\* torch.cat along the batch dimension
TorchCat(tensors) ==
    IF tensors = <<>> THEN Raise("RuntimeError")
    ELSE [cols |-> tensors[1].cols,
          data |-> Flatten(AsList([i \in 1..Len(tensors) |-> tensors[i].data]))]

\* the lists of the outputs joined last output first
ExtendedBackwards(outs, key) ==
    Flatten(Reverse(AsList([i \in 1..Len(outs) |-> outs[i].batch_predictions[key]])))

\* list.extend over the outputs, for one key of batch_predictions
Extended(outs, key) ==
    Flatten(AsList([i \in 1..Len(outs) |-> outs[i].batch_predictions[key]]))

Aggregated(post, image_ids, targets) ==
    IF Raised(post) THEN post
    ELSE [val |-> <<post.val[3], image_ids, post.val[1], post.val[2], targets>>]

AggregateFrom(detections, outs) ==
    IF Raised(detections) THEN detections
    ELSE Aggregated(PostProcessDetections(detections),
                    Extended(outs, "image_ids"), Extended(outs, "targets"))

\* EfficientDetModel.aggregate_prediction_outputs: val is
\* (predicted_class_labels, image_ids, predicted_bboxes,
\*  predicted_class_confidences, targets)
AggregatePredictionOutputs(outs) ==
    AggregateFrom(
        TorchCat(AsList([i \in 1..Len(outs) |->
                            outs[i].batch_predictions.predictions])),
        outs)

\* the trainer ends the epoch: validation_epoch_end(outputs), up to the
\* aggregation
ValidationEpochEnd ==
    /\ call = NoCall
    /\ call' = [op |-> "validation_epoch_end", outputs |-> outputs,
                ret |-> AggregatePredictionOutputs(outputs)]
    /\ outputs' = <<>>
    /\ UNCHANGED <<fields, first>>

NextVal == ValidationStep \/ ValidationEpochEnd

\* one validation epoch
SpecVal == Init /\ [][NextVal]_vars

\* ================================================================ claims
\* a predict call that went through _run_inference and returned a value
Inferred ==
    /\ call.op \in {"predict_list", "predict_tensor"}
    /\ call.model_called
    /\ ~Raised(call.run.ret)

NumImages == Len(call.detections.data)
Decoded == call.op = "postprocess_single" /\ ~Raised(call.ret)

\* the rows of a raw detection array scoring above t, in their order
RowsAbove(rows, t) == SelectSeq(rows, LAMBDA r : RLt(t, r[5]))

\* C1: the decoder returns exactly the rows whose score is strictly greater
\* than the threshold, in their original order, as three sequences of equal
\* length whose k-th entries come from the same row; a row whose score
\* equals the threshold is dropped.
C1_StrictStableFilter ==
    Decoded =>
        LET kept == RowsAbove(call.detections.rows, prediction_confidence_threshold)
        IN  /\ Len(call.ret.boxes) = Len(kept)
            /\ Len(call.ret.scores) = Len(kept)
            /\ Len(call.ret.classes) = Len(kept)
            /\ \A k \in 1..Len(kept) :
                  /\ call.ret.boxes[k] = SubSeq(kept[k], 1, 4)
                  /\ call.ret.scores[k] = kept[k][5]
                  /\ call.ret.classes[k] = kept[k][6]
            /\ \A k \in 1..Len(call.ret.scores) :
                  call.ret.scores[k] # prediction_confidence_threshold

\* the first row is at the threshold and dropped, the second is kept
C1_Witness ==
    /\ Decoded
    /\ Len(call.detections.rows) = 2
    /\ call.detections.rows[1][5] = prediction_confidence_threshold
    /\ Len(call.ret.scores) = 1
    /\ call.ret.scores[1] = call.detections.rows[2][5]

\* C8: the decoder raises exactly when the array has fewer than 6 columns,
\* whatever the number of rows (zero included), and what it raises carries
\* no partial result.
C8_FailsOnlyOnNarrowInput ==
    call.op = "postprocess_single" =>
        /\ Raised(call.ret) <=> call.detections.cols < 6
        /\ Raised(call.ret) => call.ret = Raise("IndexError")
        /\ ~Raised(call.ret) => DOMAIN call.ret = {"boxes", "scores", "classes"}

\* five columns, some rows: the class column is missing
C8_Witness ==
    /\ call.op = "postprocess_single"
    /\ call.detections.cols = 5
    /\ call.detections.rows # <<>>
    /\ Raised(call.ret)

\* the box coordinates are inside the image, 0 <= x <= size
InsideImage(box, size) == \A k \in 1..4 : RLe(R(0), box[k]) /\ RLe(box[k], R(size))

\* C2: a box inside the image that the fusion returns unmerged leaves
\* run_wbf with the coordinates it went in with: dividing by image_size and
\* multiplying back is a round trip.
C2_RoundTrip ==
    Inferred =>
        \A i \in 1..NumImages :
            (/\ Len(call.run.predictions[i].boxes) = 1
             /\ InsideImage(call.run.predictions[i].boxes[1], img_size)
             /\ Len(call.run.post[1][i]) = 1)
            => call.run.post[1][i][1] = call.run.predictions[i].boxes[1]

\* the size (height, width) the rescaler must use for image i of the call
TrueSize(i) ==
    IF call.op = "predict_list"
    THEN [height |-> call.images[i].size[2], width |-> call.images[i].size[1]]
    ELSE [height |-> img_size, width |-> img_size]

\* C3: every box of a non-empty list is rescaled by width / img_size in x1
\* and x2 and by height / img_size in y1 and y2, and by nothing else;
\* predict on a list takes the height and the width of each image in that
\* order.  With img_size 512 and an image of height 1024 and width 768, the
\* box (100, 100, 200, 200) becomes (150, 200, 300, 400).
C3_RescaleSeparable ==
    /\ RescaleOne(<<<<R(100), R(100), R(200), R(200)>>>>,
                  ScaleFactors(<<1024, 768>>, 512))
          = <<<<R(150), R(200), R(300), R(400)>>>>
    /\ Inferred =>
          \A i \in 1..NumImages :
             \A b \in 1..Len(call.run.post[1][i]) :
                LET box == call.run.post[1][i][b]
                    fx == Rat(TrueSize(i).width, img_size)
                    fy == Rat(TrueSize(i).height, img_size)
                IN  call.run.ret.val[1][i][b]
                       = <<RMul(box[1], fx), RMul(box[2], fy),
                           RMul(box[3], fx), RMul(box[4], fy)>>

\* a list of two images of different sizes, boxes found in both
C3_Witness ==
    /\ Inferred
    /\ call.op = "predict_list"
    /\ NumImages = 2
    /\ call.images[1].size # call.images[2].size
    /\ \A i \in 1..2 : Len(call.run.ret.val[1][i]) > 0

\* C4: an image without surviving detections has its empty box list
\* returned as it is, without an error, and keeps its position: the result
\* has one entry per image of the batch.
C4_EmptyPassesThrough ==
    (call.op \in {"predict_list", "predict_tensor"} /\ call.model_called) =>
        /\ ~Raised(call.run.ret)
        /\ \A j \in 1..3 : Len(call.run.ret.val[j]) = NumImages
        /\ \A i \in 1..NumImages :
              call.run.post[1][i] = <<>> => call.run.ret.val[1][i] = <<>>

\* an image without detections before an image with some
C4_Witness ==
    /\ Inferred
    /\ NumImages = 2
    /\ call.run.post[1][1] = <<>>
    /\ call.run.ret.val[1][1] = <<>>
    /\ Len(call.run.ret.val[1][2]) > 0

\* C5: predict on a tensor whose last two dimensions are not both img_size
\* raises ValueError before the network is called and without a result; a
\* tensor of 3 dimensions is taken for a batch of one image and checked
\* alike; the images are taken at img_size x img_size, never resized.
C5_ShapeChecked ==
    call.op = "predict_tensor" =>
        LET n == Len(call.shape)
            fits == call.shape[n] = img_size /\ call.shape[n - 1] = img_size
        IN  /\ ~fits => /\ call.run = [ret |-> Raise("ValueError")]
                        /\ ~call.model_called
            /\ fits => /\ call.model_called
                       /\ call.run.ret # Raise("ValueError")
                       /\ NumImages = (IF n = 3 THEN 1 ELSE call.shape[1])
                       /\ call.image_sizes
                             = [i \in 1..NumImages |-> <<img_size, img_size>>]

\* a tensor of 3 dimensions, one of them off
C5_Witness ==
    /\ call.op = "predict_tensor"
    /\ Len(call.shape) = 3
    /\ call.shape[2] = img_size
    /\ call.shape[3] # img_size
    /\ call.run.ret = Raise("ValueError")

\* the classes of the raw rows of image i
RawClasses(i) == {r[6] : r \in Range(call.detections.data[i])}

\* C6: an inference returns (boxes, labels, confidences), each with one
\* entry per image in the order of the batch; for every image the three
\* lists have equal length and their k-th entries are the k-th detection
\* the fusion returned for that image: its box rescaled, its label, its
\* confidence.
C6_AlignedTriple ==
    Inferred =>
        /\ Len(call.run.ret.val) = 3
        /\ \A j \in 1..3 : Len(call.run.ret.val[j]) = NumImages
        /\ \A i \in 1..NumImages :
              LET fused == RunWbfOne(call.run.predictions[i], img_size,
                                     wbf_iou_threshold, SkipBoxThr)
                  boxes == call.run.ret.val[1][i]
                  labels == call.run.ret.val[2][i]
                  confidences == call.run.ret.val[3][i]
              IN  /\ Len(boxes) = Len(fused[1])
                  /\ labels = fused[3]
                  /\ confidences = fused[2]
                  /\ \A k \in 1..Len(labels) : labels[k] \in RawClasses(i)
                  /\ \A k \in 1..Len(boxes) :
                        boxes[k] = [c \in 1..4 |->
                            RMul(fused[1][k][c],
                                 Rat(IF c \in {1, 3} THEN TrueSize(i).width
                                     ELSE TrueSize(i).height, img_size))]

\* an image with two detections of different classes
C6_Witness ==
    /\ Inferred
    /\ NumImages = 2
    /\ Len(call.run.ret.val[2][2]) = 2
    /\ call.run.ret.val[2][2][1] # call.run.ret.val[2][2][2]
    /\ Len(call.run.ret.val[2][1]) = 1

\* C9: what an inference returns for image i is what it returns for that
\* image alone, with its own size: the other images of the batch, their
\* detections and their sizes have no part in it.
C9_PerImageIndependence ==
    Inferred =>
        \A i \in 1..NumImages :
            LET alone == RunInference(
                             [cols |-> call.detections.cols,
                              data |-> <<call.detections.data[i]>>],
                             <<call.image_sizes[i]>>).ret.val
            IN  \A j \in 1..3 : call.run.ret.val[j][i] = alone[j][1]

\* two images of different sizes and different detections, boxes in both
C9_Witness ==
    /\ Inferred
    /\ NumImages = 2
    /\ call.image_sizes[1] # call.image_sizes[2]
    /\ call.detections.data[1] # call.detections.data[2]
    /\ \A i \in 1..2 : Len(call.run.ret.val[1][i]) > 0

\* C7: an inference leaves the fields of the module as they were, and a
\* call with the arguments of the first call returns what the first call
\* returned, whatever was called in between.
C7_CallsIndependent ==
    first # NoCall =>
        /\ first.fields = fields
        /\ Args(call) = first.args => call.run.ret = first.ret

\* the first call's arguments again, after a call with other arguments
C7_Witness ==
    /\ first # NoCall
    /\ first.between
    /\ Args(call) = first.args
    /\ call.model_called
    /\ ~Raised(call.run.ret)
    /\ call.run.ret.val[1] # <<<<>>>>

\* the images of the epoch, in the order of the steps and of each batch
EpochImageIds(outs) ==
    Flatten([s \in 1..Len(outs) |-> outs[s].batch_predictions.image_ids])

\* C10: the aggregation keeps predictions, image ids and targets aligned:
\* all are in batch order, then in the order within the batch, so that the
\* i-th boxes, confidences and labels are those of the i-th image id, whose
\* target is the i-th target, and there is one entry of each per image.
C10_AggregateAligned ==
    (call.op = "validation_epoch_end" /\ ~Raised(call.ret)) =>
        LET labels == call.ret.val[1]
            image_ids == call.ret.val[2]
            bboxes == call.ret.val[3]
            confidences == call.ret.val[4]
            targets == call.ret.val[5]
        IN  /\ image_ids = EpochImageIds(call.outputs)
            /\ Len(targets) = Len(image_ids)
            /\ Len(bboxes) = Len(image_ids)
            /\ Len(confidences) = Len(image_ids)
            /\ Len(labels) = Len(image_ids)
            /\ \A i \in 1..Len(image_ids) :
                  LET own == RunWbfOne(
                          PostprocessSingle(
                              [cols |-> 6, rows |-> ValDetections[image_ids[i]]],
                              prediction_confidence_threshold),
                          img_size, wbf_iou_threshold, SkipBoxThr)
                  IN  /\ targets[i].image_id = image_ids[i]
                      /\ bboxes[i] = own[1]
                      /\ confidences[i] = own[2]
                      /\ labels[i] = own[3]

\* two steps, the images of the second not those of the first
C10_Witness ==
    /\ call.op = "validation_epoch_end"
    /\ ~Raised(call.ret)
    /\ Len(call.outputs) = 2
    /\ call.outputs[1].batch_predictions.image_ids = <<1, 2>>
    /\ call.outputs[2].batch_predictions.image_ids = <<2>>

====
